---- MODULE Spec2Model ----
(***************************************************************************)
(* A model of the brainfuck interpreter of src/src/bf_interpreter.rs       *)
(* (BfInterpreter: new, parse_program, find_matching_parens, step,         *)
(* set_input), of the loops that drive it (tests::hello_world,            *)
(* run_interpreter of src/src/main.rs) and of what main and repl do with   *)
(* the result of run_interpreter.                                          *)
(*                                                                         *)
(* Conventions.  Source bytes are the numbers 0..255.  Indices (pc,        *)
(* data_ptr, the keys and values of matching_parens) are 0-based as in the *)
(* code; TLA+ sequences are 1-based, so program[pc] of the code is         *)
(* program[pc + 1] here.  The tape `cells` (vec![0u8; 30_000]) is the      *)
(* record [len, nz]: len is the vector's length and nz holds the cells     *)
(* whose value is not 0 (every index below len and outside DOMAIN nz holds *)
(* 0), kept canonical so that equal tapes are equal values.                *)
(*                                                                         *)
(* Some operators are preceded by a variant of themselves (SaturatingAdd1  *)
(* before wrapping_add1, AtCellsLen before AtLastCell, ...): the operator  *)
(* as a slip in the code would have it.  The variants are used by no       *)
(* specification; each property is also checked to fail with one of them   *)
(* in place of the operator.                                               *)
(***************************************************************************)
EXTENDS Integers, Sequences, FiniteSets, TLC

VARIABLES
    source,           \* the bytes handed to BfInterpreter::new
    built,            \* what new returned: "None" (not called), "Ok" or the Err string
    pc,               \* BfInterpreter.pc
    data_ptr,         \* BfInterpreter.data_ptr
    program,          \* BfInterpreter.program
    cells,            \* BfInterpreter.cells
    matching_parens,  \* BfInterpreter.matching_parens
    call,             \* the last call made: "none", "new", "step", "set_input", "parse_program"
    ret,              \* what the last step call returned (Panic: the last call panicked)
    prev_ret,         \* what the step call before the last returned
    queried,          \* the key the last step call looked up in matching_parens, -1 if none
    ninputs,          \* set_input calls made by the unconstrained caller
    driver,           \* the driving loop: "loop" while it runs, else how it ended; "idle" and
                      \* "count": no loop, a caller that follows no protocol
    buf,              \* the byte last passed to set_input (buf[0] of run_interpreter)
    nsteps,           \* step calls the driving loop (or the "count" caller) has made
    output,           \* the bytes the driving loop has collected / written
    mode,             \* who runs the driving loop: "file" (main), "repl", or "none" (a loop
                      \* that collects the bytes, as tests::hello_world)
    reported,         \* the errors the process has printed (println!("ERROR: {}", e))
    exit              \* the process: "running", "prompt" (repl awaits a line), "SUCCESS"
                      \* (main returned ExitCode::SUCCESS) or "abort" (a panic ended it)

vars == <<source, built, pc, data_ptr, program, cells, matching_parens,
          call, ret, prev_ret, queried, ninputs, driver, buf, nsteps, output,
          mode, reported, exit>>

engine == <<pc, data_ptr, program, cells, matching_parens>>

\* the process around the driving loop
proc == <<mode, reported, exit>>

---------------------------------------------------------------------------
(* Bounds of the model. *)

\* longest source enumerated exhaustively for the stepping specification
MaxSrcLen == 2

\* longest bracket source enumerated exhaustively for the loading specification
MaxLoadLen == 6

\* set_input calls the unconstrained caller may make
MaxInputs == 1

\* longest source enumerated exhaustively for the tokenizing specification
MaxParseLen == 3

\* step calls of one run followed in the process specification
MaxMainSteps == 10

\* longest loop-free source enumerated exhaustively, and the step calls followed
\* after the one that returns Finished
MaxLinearLen == 3
MaxExtraCalls == 2

---------------------------------------------------------------------------
(* Token, Ret *)

IncDataPtr == "IncDataPtr"
DecDataPtr == "DecDataPtr"
IncByte == "IncByte"
DecByte == "DecByte"
WriteByte == "WriteByte"
ReadByte == "ReadByte"
BeginLoop == "BeginLoop"
EndLoop == "EndLoop"

Token == {IncDataPtr, DecDataPtr, IncByte, DecByte, WriteByte, ReadByte, BeginLoop, EndLoop}

\* Ret::Input, Ret::Output(u8), Ret::Continue, Ret::Finished, and the two other
\* ways a step call can end: Err(String) and a panic (an index out of bounds, a
\* key missing from the HashMap).  NoRet: no step call made yet.
RetOf(kind, byte, err) == [kind |-> kind, byte |-> byte, err |-> err]
NoRet == RetOf("None", 0, "")
Input == RetOf("Input", 0, "")
Output(b) == RetOf("Output", b, "")
Continue == RetOf("Continue", 0, "")
Finished == RetOf("Finished", 0, "")
Err(e) == RetOf("Err", 0, e)
Panic == RetOf("Panic", 0, "")

MemoryOverflow == "Memory overflow"
MemoryUnderflow == "Memory underflow"
\* the load errors: a ']' with no pending '[' ("Missing '['") and a '[' left
\* pending ("Missing ']'")
UnmatchedClose == "Missing '['"
UnmatchedOpen == "Missing ']'"

---------------------------------------------------------------------------
(* The tape: Vec<u8> of a fixed length. *)

TapeLen == 30000

EmptyMap == [k \in {} |-> 0]

\* vec![0u8; n]
ZeroCells(n) == [len |-> n, nz |-> EmptyMap]

\* cells[i], for i < cells.len()
CellAt(c, i) == IF i \in DOMAIN c.nz THEN c.nz[i] ELSE 0

\* cells[i] = v, for i < cells.len()
CellSet(c, i, v) ==
    [c EXCEPT !.nz = IF v = 0
                     THEN [j \in (DOMAIN c.nz) \ {i} |-> c.nz[j]]
                     ELSE [j \in (DOMAIN c.nz) \cup {i} |-> IF j = i THEN v ELSE c.nz[j]]]

\* u8::wrapping_add(1), u8::wrapping_sub(1)
SaturatingAdd1(x) == IF x = 255 THEN 255 ELSE x + 1
wrapping_add1(x) == (x + 1) % 256
SaturatingSub1(x) == IF x = 0 THEN 0 ELSE x - 1
wrapping_sub1(x) == (x + 255) % 256

---------------------------------------------------------------------------
(* parse_program *)

\* the match of the closure: Some(token) or None
TokenOfIoSwapped(b) ==
    CASE b = 62 -> IncDataPtr
      [] b = 60 -> DecDataPtr
      [] b = 43 -> IncByte
      [] b = 45 -> DecByte
      [] b = 46 -> ReadByte
      [] b = 44 -> WriteByte
      [] b = 91 -> BeginLoop
      [] b = 93 -> EndLoop
      [] OTHER -> "None"
TokenOf(b) ==
    CASE b = 62 -> IncDataPtr    \* b'>'
      [] b = 60 -> DecDataPtr    \* b'<'
      [] b = 43 -> IncByte       \* b'+'
      [] b = 45 -> DecByte       \* b'-'
      [] b = 46 -> WriteByte     \* b'.'
      [] b = 44 -> ReadByte      \* b','
      [] b = 91 -> BeginLoop     \* b'['
      [] b = 93 -> EndLoop       \* b']'
      [] OTHER -> "None"

\* iter().flat_map(..).collect(): the Some values, in order
parse_program(bytes) ==
    LET opts == [i \in 1..Len(bytes) |-> TokenOf(bytes[i])]
    IN  SelectSeq(opts, LAMBDA t : t # "None")

---------------------------------------------------------------------------
(* find_matching_parens *)

\* map.insert(i, matching_index); map.insert(matching_index, i)
MapInsert(map, k, v) == [x \in (DOMAIN map) \cup {k} |-> IF x = k THEN v ELSE map[x]]
InsertOneWay(map, i, matching_index) == MapInsert(map, i, matching_index)
InsertPair(map, i, matching_index) ==
    MapInsert(MapInsert(map, i, matching_index), matching_index, i)

\* stack.pop() on an empty stack: ok_or_else(|| "Missing '['")?
PopEmptyIgnored(i, stack, map) == [done |-> FALSE, err |-> "", stack |-> stack, map |-> map]
PopEmpty(i, stack, map) == [done |-> TRUE, err |-> UnmatchedClose, stack |-> stack, map |-> map]

\* one iteration of the for loop over (i, b)
ScanToken(i, b, stack, map) ==
    IF b = BeginLoop
    THEN [done |-> FALSE, err |-> "", stack |-> Append(stack, <<i, b>>), map |-> map]
    ELSE IF b = EndLoop
    THEN IF stack = <<>>
         THEN PopEmpty(i, stack, map)
         ELSE LET matching_index == stack[Len(stack)][1]
              IN  [done |-> FALSE, err |-> "",
                   stack |-> SubSeq(stack, 1, Len(stack) - 1),
                   map |-> InsertPair(map, i, matching_index)]
    ELSE [done |-> FALSE, err |-> "", stack |-> stack, map |-> map]

\* after the loop: if !stack.is_empty() { return Err("Missing ']'") }; Ok(map)
AfterScanUnchecked(stack, map) == [err |-> "", map |-> map]
AfterScan(stack, map) ==
    IF stack # <<>> THEN [err |-> UnmatchedOpen, map |-> EmptyMap]
                    ELSE [err |-> "", map |-> map]

\* the iterations lo .. hi-1 of the for loop, in order, from the state s before
\* them (an early return ends the loop: s.done); the range is split in halves to
\* keep the evaluation shallow on long programs
RECURSIVE ScanRange(_, _, _, _)
ScanRange(prog, lo, hi, s) ==
    IF s.done \/ lo >= hi THEN s
    ELSE IF hi = lo + 1 THEN ScanToken(lo, prog[lo + 1], s.stack, s.map)
    ELSE LET mid == (lo + hi) \div 2
         IN  ScanRange(prog, mid, hi, ScanRange(prog, lo, mid, s))

\* Result<HashMap<usize, usize>, String>: err = "" is Ok(map)
find_matching_parens(prog) ==
    LET s == ScanRange(prog, 0, Len(prog),
                       [done |-> FALSE, err |-> "", stack |-> <<>>, map |-> EmptyMap])
    IN  IF s.done THEN [err |-> s.err, map |-> EmptyMap]
                  ELSE AfterScan(s.stack, s.map)

---------------------------------------------------------------------------
(* BfInterpreter::new *)

\* the fields while no engine exists (new not called, or new returned Err)
NoEngine == [pc |-> 0, data_ptr |-> 0, program |-> <<>>, cells |-> ZeroCells(0),
             matching_parens |-> EmptyMap]

\* Ok(Self { pc: 0, data_ptr: 0, program, cells: vec![0u8; 30_000], matching_parens })
NewEngineTapeNotZeroed(prog, map) ==
    [pc |-> 0, data_ptr |-> 0, program |-> prog,
     cells |-> CellSet(ZeroCells(TapeLen), 0, 1), matching_parens |-> map]
NewEngine(prog, map) ==
    [pc |-> 0, data_ptr |-> 0, program |-> prog,
     cells |-> ZeroCells(TapeLen), matching_parens |-> map]

\* Result<Self, String>: err = "" is Ok(self)
new(bytes) ==
    LET prog == parse_program(bytes)
        m == find_matching_parens(prog)
    IN  IF m.err # ""
        THEN [err |-> m.err, self |-> NoEngine]
        ELSE [err |-> "", self |-> NewEngine(prog, m.map)]

---------------------------------------------------------------------------
(* BfInterpreter::step *)

StepOut(self, r, q) == [self |-> self, ret |-> r, queried |-> q]

\* if self.pc >= self.program.len() { return Ok(Ret::Finished); }
FinishedPastEndOnly(self) == self.pc > Len(self.program)
IsFinished(self) == self.pc >= Len(self.program)

\* if self.data_ptr == self.cells.len() - 1
AtCellsLen(self) == self.data_ptr = self.cells.len
AtLastCell(self) == self.data_ptr = self.cells.len - 1

\* if self.data_ptr == 0
NeverAtFirstCell(self) == FALSE
AtFirstCell(self) == self.data_ptr = 0

\* self.pc = self.matching_parens[&self.pc] + 1 (the key is present)
JumpTwoPastMatch(self) == self.matching_parens[self.pc] + 2
JumpToMatch(self) == self.matching_parens[self.pc]
JumpPastMatch(self) == self.matching_parens[self.pc] + 1

\* the BeginLoop and EndLoop arms: jump is the arm's condition on cells[data_ptr]
LoopArm(self, jump) ==
    IF jump
    THEN IF self.pc \in DOMAIN self.matching_parens
         THEN StepOut([self EXCEPT !.pc = JumpPastMatch(self)], Continue, self.pc)
         ELSE StepOut(self, Panic, self.pc)
    ELSE StepOut([self EXCEPT !.pc = @ + 1], Continue, -1)

\* if self.cells[self.data_ptr] == 0   /   if self.cells[self.data_ptr] != 0
BeginLoopJumpsOnNonZero(cur) == cur # 0
BeginLoopJumps(cur) == cur = 0
EndLoopJumpsOnZero(cur) == cur = 0
EndLoopJumps(cur) == cur # 0

\* return Err("Memory overflow") / Err("Memory underflow"): nothing was assigned
MoveErrSkips(self, e) == StepOut([self EXCEPT !.pc = @ + 1], Err(e), -1)
MoveErr(self, e) == StepOut(self, Err(e), -1)

\* ReadByte => { self.pc += 1; return Ok(Ret::Input); }
ReadByteClearsCell(self) ==
    StepOut([self EXCEPT !.cells = CellSet(@, self.data_ptr, 0), !.pc = @ + 1], Input, -1)
ReadByteStays(self) == StepOut(self, Input, -1)
ReadByteArm(self) == StepOut([self EXCEPT !.pc = @ + 1], Input, -1)

\* return Ok(Ret::Output(self.cells[self.data_ptr]));
WriteByteContinues(self) == Continue
WriteByteRet(self) == Output(CellAt(self.cells, self.data_ptr))

step(self) ==
    IF IsFinished(self) THEN StepOut(self, Finished, -1)
    ELSE IF self.pc + 1 \notin DOMAIN self.program THEN StepOut(self, Panic, -1)
    ELSE
    LET p == self.program[self.pc + 1]
        inTape == self.data_ptr < self.cells.len
        cur == CellAt(self.cells, self.data_ptr)
    IN  CASE p = IncDataPtr ->
                IF AtLastCell(self)
                THEN MoveErr(self, MemoryOverflow)
                ELSE StepOut([self EXCEPT !.data_ptr = @ + 1, !.pc = @ + 1], Continue, -1)
          [] p = DecDataPtr ->
                IF AtFirstCell(self)
                THEN MoveErr(self, MemoryUnderflow)
                ELSE StepOut([self EXCEPT !.data_ptr = @ - 1, !.pc = @ + 1], Continue, -1)
          [] p = IncByte ->
                IF ~inTape THEN StepOut(self, Panic, -1)
                ELSE StepOut([self EXCEPT
                                !.cells = CellSet(@, self.data_ptr, wrapping_add1(cur)),
                                !.pc = @ + 1], Continue, -1)
          [] p = DecByte ->
                IF ~inTape THEN StepOut(self, Panic, -1)
                ELSE StepOut([self EXCEPT
                                !.cells = CellSet(@, self.data_ptr, wrapping_sub1(cur)),
                                !.pc = @ + 1], Continue, -1)
          [] p = WriteByte ->
                IF ~inTape THEN StepOut([self EXCEPT !.pc = @ + 1], Panic, -1)
                ELSE StepOut([self EXCEPT !.pc = @ + 1], WriteByteRet(self), -1)
          [] p = ReadByte ->
                ReadByteArm(self)
          [] p = BeginLoop ->
                IF ~inTape THEN StepOut(self, Panic, -1)
                ELSE LoopArm(self, BeginLoopJumps(cur))
          [] p = EndLoop ->
                IF ~inTape THEN StepOut(self, Panic, -1)
                ELSE LoopArm(self, EndLoopJumps(cur))

---------------------------------------------------------------------------
(* BfInterpreter::set_input *)

\* the index of self.cells[self.data_ptr] = input is out of bounds
SetInputPanics(self) == self.data_ptr >= self.cells.len

\* self.cells[self.data_ptr] = input;
SetInputFirstCell(self, input) ==
    [self EXCEPT !.cells = CellSet(@, 0, input)]
SetInputNextCell(self, input) ==
    [self EXCEPT !.cells = CellSet(@, self.data_ptr + 1, input)]
set_input(self, input) ==
    [self EXCEPT !.cells = CellSet(@, self.data_ptr, input)]

---------------------------------------------------------------------------
(* Inputs *)

Seqs(S, n) == UNION {[1..k -> S] : k \in 0..n}

\* the 8 instruction bytes > < + - . , [ ] and one byte that is none of them ('a')
InstrBytes == {62, 60, 43, 45, 46, 44, 91, 93}
SrcBytes == InstrBytes \cup {97}

\* longer programs for the stepping specification:
\*   +[-]   ++[>+<-]>.   -[+]   ,[.,]   +[>[-]<-]   [[]]   +[[-]]   [+]   [-]
\*   [.]   [,]   +[]   -[]   [<]   +<>   ><<   ,.+   >[]   [][]   +[>]<   [[-]+]
ExtraSources ==
    { <<43, 91, 45, 93>>,
      <<43, 43, 91, 62, 43, 60, 45, 93, 62, 46>>,
      <<45, 91, 43, 93>>,
      <<44, 91, 46, 44, 93>>,
      <<43, 91, 62, 91, 45, 93, 60, 45, 93>>,
      <<91, 91, 93, 93>>,
      <<43, 91, 91, 45, 93, 93>>,
      <<91, 43, 93>>, <<91, 45, 93>>, <<91, 46, 93>>, <<91, 44, 93>>,
      <<43, 91, 93>>, <<45, 91, 93>>, <<91, 60, 93>>,
      <<43, 60, 62>>, <<62, 60, 60>>, <<44, 46, 43>>, <<62, 91, 93>>,
      <<91, 93, 91, 93>>, <<43, 91, 62, 93, 60>>, <<91, 91, 45, 93, 43, 93>> }

Sources == Seqs(SrcBytes, MaxSrcLen) \cup ExtraSources

\* the bytes set_input is called with by the unconstrained caller
InputBytes == {0, 1, 65, 255}

\* bracket sources: [ ] + and 'a', and the cases of tests::handle_missing_brackets_error
LoadBytes == {91, 93, 43, 97}
BracketTests ==
    { <<91>>, <<91, 93, 91, 93, 91>>, <<91, 91, 91, 91, 93, 93, 93>>,
      <<93>>, <<91, 93, 91, 93, 91, 93, 93>>, <<91, 91, 91, 91, 93, 93, 93, 93, 93>> }
LoadSources == Seqs(LoadBytes, MaxLoadLen) \cup BracketTests

---------------------------------------------------------------------------
(* Actions *)

self == [pc |-> pc, data_ptr |-> data_ptr, program |-> program, cells |-> cells,
         matching_parens |-> matching_parens]

SetEngine(e) ==
    /\ pc' = e.pc
    /\ data_ptr' = e.data_ptr
    /\ program' = e.program
    /\ cells' = e.cells
    /\ matching_parens' = e.matching_parens

InitAs(S, d, M) ==
    /\ source \in S
    /\ built = "None"
    /\ pc = NoEngine.pc
    /\ data_ptr = NoEngine.data_ptr
    /\ program = NoEngine.program
    /\ cells = NoEngine.cells
    /\ matching_parens = NoEngine.matching_parens
    /\ call = "none"
    /\ ret = NoRet
    /\ prev_ret = NoRet
    /\ queried = -1
    /\ ninputs = 0
    /\ driver = d
    /\ buf = 0
    /\ nsteps = 0
    /\ output = <<>>
    /\ mode \in M
    /\ reported = <<>>
    /\ exit = "running"

InitWith(S, d) == InitAs(S, d, {"none"})

\* BfInterpreter::new(source)
New ==
    /\ built = "None"
    /\ LET r == new(source)
       IN  /\ built' = IF r.err = "" THEN "Ok" ELSE r.err
           /\ SetEngine(r.self)
    /\ call' = "new"
    /\ UNCHANGED <<source, ret, prev_ret, queried, ninputs, driver, buf, nsteps, output,
                   proc>>

\* a step call by a caller that follows no protocol
Step ==
    /\ built = "Ok"
    /\ driver = "idle"
    /\ ret.kind # "Panic"
    /\ LET r == step(self)
       IN  /\ SetEngine(r.self)
           /\ ret' = r.ret
           /\ queried' = r.queried
    /\ prev_ret' = ret
    /\ call' = "step"
    /\ UNCHANGED <<source, built, ninputs, driver, buf, nsteps, output, proc>>

\* a set_input call by a caller that follows no protocol
SetInput(input) ==
    /\ built = "Ok"
    /\ driver \in {"idle", "count"}
    /\ ret.kind # "Panic"
    /\ ninputs < MaxInputs
    /\ IF SetInputPanics(self)
       THEN UNCHANGED engine /\ ret' = Panic
       ELSE SetEngine(set_input(self, input)) /\ ret' = ret
    /\ buf' = input
    /\ ninputs' = ninputs + 1
    /\ call' = "set_input"
    /\ UNCHANGED <<source, built, prev_ret, queried, driver, nsteps, output, proc>>

\* Self::parse_program(program) on its own: program holds the tokens it returns
Parse ==
    /\ call = "none"
    /\ program' = parse_program(source)
    /\ call' = "parse_program"
    /\ UNCHANGED <<source, built, pc, data_ptr, cells, matching_parens, ret, prev_ret,
                   queried, ninputs, driver, buf, nsteps, output, proc>>

\* a step call by a caller that follows no protocol and whose calls are counted,
\* up to MaxExtraCalls calls after the one that finds pc at the end
StepCounted ==
    /\ built = "Ok"
    /\ driver = "count"
    /\ ret.kind # "Panic"
    /\ nsteps < Len(program) + 1 + MaxExtraCalls
    /\ LET r == step(self)
       IN  /\ SetEngine(r.self)
           /\ ret' = r.ret
           /\ queried' = r.queried
    /\ prev_ret' = ret
    /\ nsteps' = nsteps + 1
    /\ call' = "step"
    /\ UNCHANGED <<source, built, ninputs, driver, buf, output, proc>>

\* loop-free sources: the 6 instruction bytes > < + - . , and 'a'
LinearBytes == {62, 60, 43, 45, 46, 44, 97}
LinearSources == Seqs(LinearBytes, MaxLinearLen)

\* The loop-free specification: every short loop-free source under a caller that
\* makes any step and set_input calls.
InitLinear == InitWith(LinearSources, "count")
NextLinear == New \/ StepCounted \/ (\E input \in InputBytes : SetInput(input))
SpecLinear == InitLinear /\ [][NextLinear]_vars

\* sources for the tokenizing specification: the 8 instruction bytes and three
\* bytes that are none of them ('a', 0, 255)
ParseBytes == InstrBytes \cup {97, 0, 255}
ParseSources == Seqs(ParseBytes, MaxParseLen)

\* The tokenizing specification: parse_program on its own, and inside new.
InitParse == InitWith(ParseSources, "idle")
NextParse == Parse \/ New
SpecParse == InitParse /\ [][NextParse]_vars

InitLoad == InitWith(LoadSources, "idle")
NextLoad == New
SpecLoad == InitLoad /\ [][NextLoad]_vars

---------------------------------------------------------------------------
(* The driving loop: loop { match bf.step() { .. } } of tests::hello_world and of
   run_interpreter.  It calls step, collects the byte of an Output, answers an
   Input by reading one byte and calling set_input (or stops when the read
   fails), and stops on Finished and on an Err. *)

DriverAfter(r) ==
    CASE r.kind = "Input" -> "input"
      [] r.kind = "Finished" -> "finished"
      [] r.kind = "Err" -> "err"
      [] r.kind = "Panic" -> "panic"
      [] OTHER -> "loop"

\* Ret::Output(byte): the collecting loop pushes the byte (result.push(o)).
\* run_interpreter writes it as the str from_utf8_unchecked(&[byte]): for a byte
\* of 128 or more that is no valid UTF-8, which the unsafe call must not be given
\* (undefined behaviour); the byte is then written as it is, or the write fails
\* and its unwrap panics (a console that takes UTF-8 only).
WriteOutcomes(m, byte) ==
    IF m = "none" \/ byte < 128 THEN {"written"} ELSE {"written", "panic"}

\* match interpreter.step() { .. }
DriverStep ==
    /\ built = "Ok"
    /\ driver = "loop"
    /\ LET r == step(self)
       IN  /\ SetEngine(r.self)
           /\ ret' = r.ret
           /\ queried' = r.queried
           /\ IF r.ret.kind = "Output"
              THEN \E w \in WriteOutcomes(mode, r.ret.byte) :
                      /\ output' = IF w = "written" THEN Append(output, r.ret.byte)
                                                     ELSE output
                      /\ driver' = IF w = "written" THEN "loop" ELSE "panic"
              ELSE /\ output' = output
                   /\ driver' = DriverAfter(r.ret)
    /\ prev_ret' = ret
    /\ nsteps' = nsteps + 1
    /\ call' = "step"
    /\ UNCHANGED <<source, built, ninputs, buf, proc>>

\* Ret::Input, read_exact is Ok: interpreter.set_input(buf[0])
DriverInput(input) ==
    /\ driver = "input"
    /\ buf' = input
    /\ IF SetInputPanics(self)
       THEN UNCHANGED engine /\ ret' = Panic /\ driver' = "panic"
       ELSE SetEngine(set_input(self, input)) /\ ret' = ret /\ driver' = "loop"
    /\ call' = "set_input"
    /\ UNCHANGED <<source, built, prev_ret, queried, ninputs, nsteps, output, proc>>

\* Ret::Input, read_exact is Err: break
DriverEof ==
    /\ driver = "input"
    /\ driver' = "eof"
    /\ UNCHANGED <<source, built, engine, call, ret, prev_ret, queried, ninputs, buf, nsteps,
                   output, proc>>

\* let mut interpreter = BfInterpreter::new(program); when new returned Err.  The
\* line hands the Result itself to the loop, which does not type-check as it
\* stands; it does with `?` (run_interpreter returns the Err) and with
\* `.unwrap()` (a panic), and either is allowed here.
DriverLoadErr ==
    /\ mode # "none"
    /\ driver = "loop"
    /\ built \notin {"None", "Ok"}
    /\ driver' \in {"err", "panic"}
    /\ UNCHANGED <<source, built, engine, call, ret, prev_ret, queried, ninputs, buf, nsteps,
                   output, proc>>

\* run_interpreter has returned: Ok(()) after Finished and after a failed read,
\* Err(e) after an Err
Returned == driver \in {"finished", "eof", "err"}

\* the e of the Err(e) run_interpreter returned
RunError == IF built \notin {"None", "Ok"} THEN built ELSE ret.err

\* main, file mode: run_interpreter(content.as_bytes()); ExitCode::SUCCESS
MainReturns ==
    /\ mode = "file"
    /\ exit = "running"
    /\ Returned
    /\ exit' = "SUCCESS"
    /\ UNCHANGED <<source, built, engine, call, ret, prev_ret, queried, ninputs, driver, buf,
                   nsteps, output, mode, reported>>

\* repl: match run_interpreter(buf.as_bytes()) { Ok(_) => {} Err(e) => println!("ERROR: {}", e) }
ReplReport(rep, e) == Append(rep, e)
ReplReturns ==
    /\ mode = "repl"
    /\ exit = "running"
    /\ Returned
    /\ reported' = IF driver = "err" THEN ReplReport(reported, RunError) ELSE reported
    /\ exit' = "prompt"
    /\ UNCHANGED <<source, built, engine, call, ret, prev_ret, queried, ninputs, driver, buf,
                   nsteps, output, mode>>

\* repl: the line read is "exit" (return) or the read fails (break); main then
\* returns ExitCode::SUCCESS
ReplExit ==
    /\ mode = "repl"
    /\ exit = "prompt"
    /\ exit' = "SUCCESS"
    /\ UNCHANGED <<source, built, engine, call, ret, prev_ret, queried, ninputs, driver, buf,
                   nsteps, output, mode, reported>>

\* a panic inside run_interpreter ends the process
Abort ==
    /\ mode # "none"
    /\ exit = "running"
    /\ driver = "panic"
    /\ exit' = "abort"
    /\ UNCHANGED <<source, built, engine, call, ret, prev_ret, queried, ninputs, driver, buf,
                   nsteps, output, mode, reported>>

\* programs run by main and by repl: every short source, and
\*   -.   +[-]   ,[.,]   ++>+.<.   [[]   ><<   -.<
MainSources ==
    Seqs(SrcBytes, MaxSrcLen) \cup
    { <<45, 46>>, <<43, 91, 45, 93>>, <<44, 91, 46, 44, 93>>,
      <<43, 43, 62, 43, 46, 60, 46>>, <<91, 91, 93>>, <<62, 60, 60>>, <<45, 46, 60>> }
MainInputs == {0, 65, 200}

\* a step call of run_interpreter, within the number of calls followed
MainStep == nsteps < MaxMainSteps /\ DriverStep

\* The process specification: one program run by main (file mode) or by repl.
InitMain == InitAs(MainSources, "loop", {"file", "repl"})
NextMain ==
    \/ New
    \/ DriverLoadErr
    \/ MainStep
    \/ \E input \in MainInputs : DriverInput(input)
    \/ DriverEof
    \/ MainReturns
    \/ ReplReturns
    \/ ReplExit
    \/ Abort
SpecMain == InitMain /\ [][NextMain]_vars

\* the program of tests::hello_world and the text it prints
HelloWorld ==
    <<43, 43, 43, 43, 43, 43, 43, 43, 91, 62, 43, 43, 43, 43, 91, 62, 43, 43, 62, 43,
      43, 43, 62, 43, 43, 43, 62, 43, 60, 60, 60, 60, 45, 93, 62, 43, 62, 43, 62, 45,
      62, 62, 43, 91, 60, 93, 60, 45, 93, 62, 62, 46, 62, 45, 45, 45, 46, 43, 43, 43,
      43, 43, 43, 43, 46, 46, 43, 43, 43, 46, 62, 62, 46, 60, 45, 46, 60, 46, 43, 43,
      43, 46, 45, 45, 45, 45, 45, 45, 46, 45, 45, 45, 45, 45, 45, 45, 45, 46, 62, 62,
      43, 46, 62, 43, 43, 46>>
HelloWorldText == <<72, 101, 108, 108, 111, 32, 87, 111, 114, 108, 100, 33, 10>>

\* ,.
Echo == <<44, 46>>

Byte == 0..255

InitRun == InitWith({HelloWorld, Echo}, "loop")
NextRun == New \/ DriverStep \/ (\E input \in Byte : DriverInput(input)) \/ DriverEof
SpecRun == InitRun /\ [][NextRun]_vars

\* programs that walk the tape under the driving loop:
\*   ,[[-]>,]<   moves right once per nonzero input byte, then left once
\*   <   ><   >><<<
TapeSources ==
    { <<44, 91, 91, 45, 93, 62, 44, 93, 60>>,
      <<60>>, <<62, 60>>, <<62, 62, 60, 60, 60>> }
TapeInputs == {0, 1}

\* The stepping specification: every short source (and the longer ExtraSources)
\* under a caller that makes any step and set_input calls, and the TapeSources
\* under the driving loop, which reads the bytes of TapeInputs.
Init == InitWith(Sources, "idle") \/ InitWith(TapeSources, "loop")
Next ==
    \/ New
    \/ Step
    \/ \E input \in InputBytes : SetInput(input)
    \/ DriverStep
    \/ \E input \in TapeInputs : DriverInput(input)
    \/ DriverEof
Spec == Init /\ [][Next]_vars

---------------------------------------------------------------------------
(* Properties *)

\* the transition is a step call: by the unconstrained caller or by the driving
\* loop (the other transitions that leave call = "step" start elsewhere)
StepCall == call' = "step" /\ driver \in {"idle", "count", "loop"}

\* the transition is a set_input call
SetInputCall == call' = "set_input" /\ driver \in {"idle", "count", "input"}

\* the cells that are not 0 before or after the transition, and the current cell
\* (every other cell is 0 before and after)
TouchedCells == (DOMAIN cells.nz) \cup (DOMAIN cells'.nz) \cup {data_ptr}

\* an engine exists and its program counter is inside the program
Running == built = "Ok" /\ pc < Len(program)

\* the instruction a step call made in this state executes, if Running
Cur == program[pc + 1]

\* a step on a move instruction: the two errors, else Continue and data_ptr +- 1
C1_MoveStep ==
    (StepCall /\ Running /\ Cur \in {IncDataPtr, DecDataPtr}) =>
        IF Cur = DecDataPtr /\ data_ptr = 0 THEN ret' = Err(MemoryUnderflow)
        ELSE IF Cur = IncDataPtr /\ data_ptr = 29999 THEN ret' = Err(MemoryOverflow)
        ELSE /\ ret' = Continue
             /\ data_ptr' = IF Cur = IncDataPtr THEN data_ptr + 1 ELSE data_ptr - 1
\* where the last step can have returned each error
C1_MoveErrors ==
    /\ ret = Err(MemoryOverflow) => data_ptr = 29999
    /\ ret = Err(MemoryUnderflow) => data_ptr = 0
\* C1: a step on DecDataPtr with data_ptr = 0 returns Err("Memory underflow"), a
\* step on IncDataPtr with data_ptr = 29,999 returns Err("Memory overflow"), and
\* every other step on a move instruction returns Continue and changes data_ptr
\* by exactly 1 (so counting from a fresh engine, the moves right succeed until
\* data_ptr is 29,999 and an overflow is never returned below that index).
C1_PointerMoves == [][C1_MoveStep]_vars /\ []C1_MoveErrors
C1_Witness ==
    /\ call = "step" /\ ret = Err(MemoryOverflow) /\ prev_ret = Continue
    /\ data_ptr = 29999 /\ Cur = IncDataPtr

\* the number of bytes b among s[lo..hi]
CountIn(s, b, lo, hi) == Cardinality({i \in lo..hi : s[i] = b})

\* some ']' of s has no '[' pending before it: at that ']' the closes outnumber the opens
HasUnmatchedClose(s) ==
    \E k \in 1..Len(s) : CountIn(s, 93, 1, k) > CountIn(s, 91, 1, k)

\* some '[' of s is never closed: after it the closes never outnumber the opens
HasDanglingOpen(s) ==
    \E k \in 1..Len(s) :
        /\ s[k] = 91
        /\ \A j \in (k + 1)..Len(s) : CountIn(s, 93, k + 1, j) <= CountIn(s, 91, k + 1, j)

\* the '[' and ']' of s are balanced under strict nesting
Balanced(s) ==
    /\ ~HasUnmatchedClose(s)
    /\ CountIn(s, 91, 1, Len(s)) = CountIn(s, 93, 1, Len(s))

\* C2: for every source in which a ']' is scanned while no '[' is pending,
\* new fails with "Missing '['" (UnmatchedClose), whatever precedes or follows it.
C2_UnmatchedClose ==
    (call = "new" /\ HasUnmatchedClose(source)) => built = UnmatchedClose
C2_Witness ==
    /\ call = "new" /\ built = UnmatchedClose
    /\ HasDanglingOpen(source)
    /\ \E k \in 2..(Len(source) - 1) :
          /\ CountIn(source, 93, 1, k) > CountIn(source, 91, 1, k)
          /\ CountIn(source, 91, 1, k - 1) > 0

\* C3 as claimed: for every source that contains a dangling '[', new fails with
\* "Missing ']'" (UnmatchedOpen).
C3_DanglingOpenAsClaimed ==
    (call = "new" /\ HasDanglingOpen(source)) => built = UnmatchedOpen

\* C3, amended: for every source that contains a dangling '[' and no ']' that is
\* scanned while no '[' is pending, new fails with "Missing ']'" (UnmatchedOpen).
C3_DanglingOpen ==
    (call = "new" /\ HasDanglingOpen(source) /\ ~HasUnmatchedClose(source))
        => built = UnmatchedOpen
C3_Witness ==
    /\ call = "new" /\ built = UnmatchedOpen
    /\ Len(source) >= 3
    /\ source[1] = 91 /\ source[Len(source)] = 93

\* every cell of the tape c is 0
AllCellsZero(c) == \A i \in 0..(c.len - 1) : CellAt(c, i) = 0

\* C4: new succeeds exactly when the '[' and ']' of the source are balanced under
\* strict nesting; the bytes that are no instruction never decide the result (it
\* is that of the source with them removed); a failure is one of the two load
\* errors; and on success pc = 0, data_ptr = 0 and all 30,000 cells are 0.
C4_Construction ==
    call = "new" =>
        /\ built = "Ok" <=> Balanced(source)
        /\ built \in {"Ok", UnmatchedOpen, UnmatchedClose}
        /\ LET r == new(SelectSeq(source, LAMBDA b : b \in InstrBytes))
           IN  built = IF r.err = "" THEN "Ok" ELSE r.err
        /\ built = "Ok" =>
              /\ pc = 0
              /\ data_ptr = 0
              /\ cells.len = 30000
              /\ AllCellsZero(cells)
C4_Witness ==
    /\ call = "new" /\ built = "Ok"
    /\ \E i, j, k \in 1..Len(source) :
          i < j /\ j < k /\ source[i] = 91 /\ source[j] = 97 /\ source[k] = 93
    /\ cells.len = 30000 /\ AllCellsZero(cells)

\* the close at j matches the open at i of prog (0-based): between them the
\* loop tokens are balanced under strict nesting
IsMatch(prog, i, j) ==
    /\ i < j
    /\ prog[i + 1] = BeginLoop
    /\ prog[j + 1] = EndLoop
    /\ \A k \in (i + 2)..j :
          CountIn(prog, EndLoop, i + 2, k) <= CountIn(prog, BeginLoop, i + 2, k)
    /\ CountIn(prog, EndLoop, i + 2, j) = CountIn(prog, BeginLoop, i + 2, j)

Loops == {i \in 0..(Len(program) - 1) : program[i + 1] \in {BeginLoop, EndLoop}}
Opens == {i \in 0..(Len(program) - 1) : program[i + 1] = BeginLoop}

\* C5: for every balanced program, matching_parens is defined exactly at the
\* indices of the loop tokens, map[map[i]] = i there, every BeginLoop at i maps
\* to the EndLoop at the j > i that matches it under strict nesting (and every
\* EndLoop to a BeginLoop before it), and no two pairs cross.
C5_BracketMap ==
    built = "Ok" =>
        /\ DOMAIN matching_parens = Loops
        /\ \A i \in Loops :
              /\ matching_parens[i] \in Loops
              /\ matching_parens[matching_parens[i]] = i
              /\ IF i \in Opens
                 THEN IsMatch(program, i, matching_parens[i])
                 ELSE matching_parens[i] \in Opens /\ matching_parens[i] < i
        /\ \A i, k \in Opens :
              (i < k /\ k < matching_parens[i]) => matching_parens[k] < matching_parens[i]
C5_Witness ==
    /\ built = "Ok" /\ call = "new"
    /\ \E i, k, m \in Opens :
          /\ i < k /\ matching_parens[k] < matching_parens[i]
          /\ matching_parens[i] < m

\* a step on IncByte or DecByte: Continue, and the cell at data_ptr modulo 256
C6_CellStep ==
    (StepCall /\ Running /\ Cur \in {IncByte, DecByte}) =>
        LET v == CellAt(cells, data_ptr)
        IN  /\ ret' = Continue
            /\ CellAt(cells', data_ptr) =
                  IF Cur = IncByte THEN (IF v = 255 THEN 0 ELSE v + 1)
                                   ELSE (IF v = 0 THEN 255 ELSE v - 1)
\* C6: a step on IncByte or DecByte never fails and wraps modulo 256: 255 + 1
\* is 0, 0 - 1 is 255, and every other value changes by exactly 1.
C6_CellWraps == [][C6_CellStep]_vars
C6_Witness ==
    /\ call = "step" /\ ret = Continue
    /\ pc >= 1 /\ program[pc] = IncByte
    /\ CellAt(cells, data_ptr) = 0

\* a step called at or past the end of the program
C7_FinishedStep ==
    (StepCall /\ built = "Ok" /\ pc >= Len(program)) =>
        /\ ret' = Finished
        /\ pc' = pc
        /\ data_ptr' = data_ptr
        /\ cells' = cells
\* after a Finished
C7_FinishedStays ==
    /\ ret = Finished => pc >= Len(program)
    /\ prev_ret = Finished => ret = Finished
\* C7: a step called with pc >= program.len() returns Finished and leaves pc,
\* data_ptr and every cell unchanged; so once a step has returned Finished the
\* program counter stays at or past the end and the next step returns Finished too.
C7_FinishedIdempotent == [][C7_FinishedStep]_vars /\ []C7_FinishedStays
C7_Witness ==
    /\ call = "step" /\ prev_ret = Finished /\ ret = Finished
    /\ Len(program) > 0 /\ ninputs > 0

\* C8: in every state of a constructed engine, whatever step and set_input
\* calls were made, 0 <= data_ptr < 30,000 and 0 <= pc <= program.len(), no call
\* has panicked, and the key the last step looked up in matching_parens (if any)
\* is the index of a loop token and is in the map.
C8_EngineInvariant ==
    built = "Ok" =>
        /\ 0 <= data_ptr /\ data_ptr < 30000
        /\ 0 <= pc /\ pc <= Len(program)
        /\ cells.len = 30000
        /\ ret.kind # "Panic"
        /\ queried # -1 =>
              /\ queried \in 0..(Len(program) - 1)
              /\ program[queried + 1] \in {BeginLoop, EndLoop}
              /\ queried \in DOMAIN matching_parens
C8_Witness ==
    /\ built = "Ok" /\ call = "step" /\ ninputs > 0
    /\ queried # -1 /\ pc = Len(program)

\* s is a prefix of q
IsPrefix(s, q) == Len(s) <= Len(q) /\ SubSeq(q, 1, Len(s)) = s

\* C9: the engine built from the hello-world source, stepped by the loop with
\* no input, never returns an error (nor asks for input), keeps being stepped
\* until its 907th step call returns Finished, and the bytes of its Output
\* results are exactly those of "Hello World!\n".
C9_HelloWorld ==
    source = HelloWorld =>
        /\ built \in {"None", "Ok"}
        /\ ret.kind \notin {"Err", "Panic", "Input"}
        /\ IsPrefix(output, HelloWorldText)
        /\ ret = Finished => output = HelloWorldText
        /\ nsteps <= 907
        /\ nsteps = 907 => ret = Finished /\ driver = "finished"
        /\ (built = "Ok" /\ nsteps < 907) => driver = "loop" /\ ret # Finished
C9_Witness ==
    /\ source = HelloWorld /\ driver = "finished" /\ ret = Finished
    /\ Len(output) = 13 /\ output[1] = 72 /\ output[13] = 10

\* C10: for the source ",." and every input byte b the run is: step returns
\* Input; set_input(b); step returns Output(b); step returns Finished; and b is
\* the only byte output.
C10_Echo ==
    source = Echo =>
        /\ built \in {"None", "Ok"}
        /\ ret.kind \notin {"Err", "Panic"}
        /\ call = "new" => ret = NoRet /\ output = <<>>
        /\ (call = "step" /\ prev_ret = NoRet) =>
              ret = Input /\ output = <<>> /\ driver \in {"input", "eof"}
        /\ call = "set_input" =>
              /\ ret = Input /\ prev_ret = NoRet
              /\ output = <<>> /\ driver = "loop"
        /\ (call = "step" /\ prev_ret = Input) =>
              ret = Output(buf) /\ output = <<buf>> /\ driver = "loop"
        /\ (call = "step" /\ prev_ret.kind = "Output") =>
              ret = Finished /\ output = <<buf>> /\ driver = "finished"
        /\ prev_ret.kind \in {"None", "Input", "Output"}
C10_Witness ==
    /\ source = Echo /\ call = "step" /\ driver = "finished"
    /\ ret = Finished /\ prev_ret = Output(65)
    /\ buf = 65 /\ output = <<65>>

\* the instruction variant of each of the 8 instruction characters
InstructionOf ==
    (62 :> IncDataPtr) @@ (60 :> DecDataPtr) @@ (43 :> IncByte) @@ (45 :> DecByte) @@
    (46 :> WriteByte) @@ (44 :> ReadByte) @@ (91 :> BeginLoop) @@ (93 :> EndLoop)

\* C11: for every source, the tokenized program is the subsequence of the source
\* bytes that are one of the 8 instruction characters, each mapped to its
\* variant, in the original order: the k-th instruction byte of the source is the
\* k-th token, there are no other tokens, and the program is no longer than the
\* source.
C11_Tokenized ==
    (call = "parse_program" \/ (call = "new" /\ built = "Ok")) =>
        LET idx == {i \in 1..Len(source) : source[i] \in DOMAIN InstructionOf}
            rank(i) == Cardinality({j \in idx : j <= i})
        IN  /\ Len(program) = Cardinality(idx)
            /\ \A i \in idx : program[rank(i)] = InstructionOf[source[i]]
            /\ Len(program) <= Len(source)
C11_Witness ==
    /\ call = "parse_program"
    /\ source = <<93, 97, 44>>
    /\ program = <<EndLoop, ReadByte>>

\* C12 as claimed: every load error and every runtime error that ends a run is
\* propagated by the driver to a point where it is reported, in file mode and in
\* REPL mode: once the caller of run_interpreter has handled its result, a run
\* that ended in an error has had that error reported.
C12_ErrorsReported ==
    (exit # "running" /\ driver = "err") => reported = <<RunError>>

\* a step on BeginLoop or EndLoop
C13_LoopStep ==
    (StepCall /\ Running /\ Cur \in {BeginLoop, EndLoop}) =>
        LET v == CellAt(cells, data_ptr)
            jumps == (Cur = BeginLoop /\ v = 0) \/ (Cur = EndLoop /\ v # 0)
        IN  /\ ret' = Continue
            /\ data_ptr' = data_ptr
            /\ cells' = cells
            /\ pc' = IF jumps THEN matching_parens[pc] + 1 ELSE pc + 1
            /\ (jumps /\ Cur = EndLoop) =>
                  pc' <= pc /\ program[pc'] = BeginLoop /\ IsMatch(program, pc' - 1, pc)
            /\ (jumps /\ Cur = BeginLoop) =>
                  pc' > pc + 1 /\ program[pc'] = EndLoop /\ IsMatch(program, pc, pc' - 1)
\* C13: a step at a BeginLoop at index pc sets pc to map[pc] + 1 (the index after
\* the matching EndLoop) when cells[data_ptr] = 0 and to pc + 1 otherwise; a step
\* at an EndLoop at index pc sets pc to map[pc] + 1 (the index after the matching
\* BeginLoop) when cells[data_ptr] # 0 and to pc + 1 otherwise; in all four cases
\* the step returns Continue and leaves data_ptr and every cell unchanged.
C13_LoopJump == [][C13_LoopStep]_vars
C13_Witness ==
    /\ call = "step" /\ ret = Continue /\ prev_ret = Continue
    /\ queried # -1 /\ program[queried + 1] = EndLoop
    /\ pc = matching_parens[queried] + 1 /\ pc < queried
    /\ CellAt(cells, data_ptr) # 0

\* a step call on a constructed engine
C14_TagStep ==
    (StepCall /\ built = "Ok") =>
        IF pc >= Len(program) THEN ret' = Finished
        ELSE /\ ret' # Finished
             /\ ret'.kind \in {"Input", "Output", "Continue", "Err"}
             /\ Cur = WriteByte <=> ret'.kind = "Output"
             /\ Cur = WriteByte => ret'.byte = CellAt(cells, data_ptr)
             /\ Cur = ReadByte <=> ret' = Input
             /\ ret'.kind = "Err" => Cur \in {IncDataPtr, DecDataPtr}
\* C14: the result of a step is decided by the instruction at pc on entry:
\* Finished exactly when pc >= program.len(); Output(v) exactly when the
\* instruction is WriteByte, with v = cells[data_ptr] at that moment; Input
\* exactly when it is ReadByte; Continue for every other instruction that does
\* not fail (only the two moves can).  So each executed WriteByte or ReadByte
\* yields to the caller once, at the step that executes it.
C14_ResultTag == [][C14_TagStep]_vars
C14_Witness ==
    /\ call = "step" /\ ret = Output(255) /\ prev_ret = Continue
    /\ pc >= 1 /\ program[pc] = WriteByte
    /\ CellAt(cells, data_ptr) = 255

\* a set_input call
C15_SetInputStep ==
    SetInputCall =>
        /\ pc' = pc
        /\ data_ptr' = data_ptr
        /\ program' = program
        /\ matching_parens' = matching_parens
        /\ cells'.len = cells.len
        /\ \A i \in TouchedCells :
              CellAt(cells', i) = IF i = data_ptr THEN buf' ELSE CellAt(cells, i)
        /\ ret' = ret
\* C15: set_input(b) writes b into cells[data_ptr] and changes nothing else: pc,
\* data_ptr and every other cell are unchanged and it does not fail, whenever it
\* is called: after an Input, and as well after any other result of step
\* (Continue, Output, Finished, an error) or before the first step.
C15_SetInputFrame == [][C15_SetInputStep]_vars
C15_Witness ==
    /\ call = "set_input" /\ ret = Err(MemoryUnderflow)
    /\ buf = 65 /\ CellAt(cells, data_ptr) = 65
    /\ pc > 0

\* a transition of a constructed engine, and a step call among them
C16_FrameStep ==
    built = "Ok" =>
        /\ program' = program
        /\ matching_parens' = matching_parens
        /\ cells'.len = cells.len
        /\ (StepCall /\ Running) =>
              /\ Cur \notin {IncByte, DecByte} => cells' = cells
              /\ Cur \in {IncByte, DecByte} =>
                    /\ data_ptr' = data_ptr
                    /\ \A i \in TouchedCells \ {data_ptr} : CellAt(cells', i) = CellAt(cells, i)
              /\ (Cur \notin {BeginLoop, EndLoop} /\ ret'.kind # "Err") => pc' = pc + 1
\* C16: a step that executes IncDataPtr, DecDataPtr, WriteByte, ReadByte,
\* BeginLoop or EndLoop leaves every cell unchanged (the ReadByte step writes
\* nothing); a step that executes IncByte or DecByte leaves data_ptr and every
\* cell but cells[data_ptr] unchanged; every successful step on a non-loop
\* instruction advances pc by exactly 1; and the program, the bracket map and
\* the length of the tape never change after construction.
C16_StepFrame == [][C16_FrameStep]_vars
C16_Witness ==
    /\ call = "step" /\ ret = Input /\ prev_ret = Continue
    /\ ninputs > 0 /\ CellAt(cells, data_ptr) = 65
    /\ pc >= 2 /\ program[pc] = ReadByte

\* a step call that returns an error, and a step call after one
C17_ErrStep ==
    (StepCall /\ built = "Ok") =>
        /\ ret'.kind = "Err" =>
              /\ ret'.err \in {MemoryOverflow, MemoryUnderflow}
              /\ pc' = pc /\ data_ptr' = data_ptr /\ cells' = cells
              /\ program' = program /\ matching_parens' = matching_parens
              /\ Running /\ Cur \in {IncDataPtr, DecDataPtr}
        /\ ret.kind = "Err" => ret' = ret
\* C17: a step that returns "Memory overflow" or "Memory underflow" leaves the
\* whole engine as it was (pc still at the failing move, data_ptr not moved, the
\* tape untouched); so the next step call returns the same error again, and no
\* later step returns Finished.
C17_ErrorKeepsState == [][C17_ErrStep]_vars /\ [](prev_ret.kind = "Err" => ret = prev_ret)
C17_Witness ==
    /\ call = "step" /\ ret = Err(MemoryUnderflow) /\ prev_ret = ret
    /\ pc = 1 /\ program[1] = IncByte /\ CellAt(cells, 0) = 1
    /\ data_ptr = 0 /\ Len(program) = 3

\* the calls run_interpreter makes (each of its step calls counts in nsteps)
C18_Calls ==
    /\ (nsteps' # nsteps /\ ret.kind = "Input") =>
          call = "set_input" /\ CellAt(cells, data_ptr) = buf
    /\ SetInputCall => call = "step" /\ ret = Input
    /\ nsteps' # nsteps => ret.kind \notin {"Finished", "Err"}
    /\ driver \in {"eof", "finished", "err"} =>
          nsteps' = nsteps /\ call' = call /\ engine' = engine
\* the bytes run_interpreter writes
C18_Writes ==
    output' = IF nsteps' # nsteps /\ ret'.kind = "Output" THEN Append(output, ret'.byte)
                                                        ELSE output
C19_ExitStep ==
    (StepCall /\ Running /\ Cur \in {BeginLoop, EndLoop}) =>
        /\ pc' >= 1
        /\ program[pc'] = EndLoop => CellAt(cells', data_ptr') = 0
        /\ program[pc'] = BeginLoop => CellAt(cells', data_ptr') # 0
        /\ program[pc'] = EndLoop =>
              \/ Cur = EndLoop /\ pc' = pc + 1
              \/ Cur = BeginLoop /\ IsMatch(program, pc, pc' - 1)
        /\ program[pc'] = BeginLoop =>
              \/ Cur = BeginLoop /\ pc' = pc + 1
              \/ Cur = EndLoop /\ IsMatch(program, pc' - 1, pc)
\* C19: whenever a step at a loop instruction leaves pc just after an EndLoop (a
\* BeginLoop that skips to after its matching EndLoop, or an EndLoop that falls
\* through), cells[data_ptr] = 0 in the resulting state; whenever it leaves pc
\* just after a BeginLoop (a BeginLoop that enters its body, or an EndLoop that
\* jumps back into the body of its matching BeginLoop), cells[data_ptr] # 0.
C19_LoopExit == [][C19_ExitStep]_vars
C19_Witness ==
    /\ call = "step" /\ ret = Continue
    /\ queried # -1 /\ program[queried + 1] = BeginLoop
    /\ pc = matching_parens[queried] + 1 /\ pc > queried + 2
    /\ CellAt(cells, data_ptr) = 0
    /\ pc < Len(program)

\* the program has no BeginLoop and no EndLoop
LoopFree == \A i \in 1..Len(program) : program[i] \notin {BeginLoop, EndLoop}

\* a counted step call on a loop-free program
C20_CountedStep ==
    (StepCall /\ built = "Ok" /\ LoopFree) =>
        /\ nsteps' = nsteps + 1
        /\ ret'.kind \in {"Input", "Output", "Continue"} => pc' = pc + 1
        /\ ret'.kind \in {"Finished", "Err"} => pc' = pc
\* the calls made so far on a loop-free program of N instructions
C20_Calls ==
    (built = "Ok" /\ LoopFree /\ nsteps > 0) =>
        LET N == Len(program)
        IN  /\ ret.kind \in {"Input", "Output", "Continue", "Finished", "Err"}
            /\ ret.kind = "Err" => pc < N /\ pc < nsteps
            /\ ret.kind # "Err" => pc = (IF nsteps <= N THEN nsteps ELSE N)
            /\ ret = Finished <=> (ret.kind # "Err" /\ nsteps > N)
            /\ N = 0 => ret = Finished
\* C20: for every program of N instructions with no BeginLoop and no EndLoop,
\* whatever set_input calls the caller makes, the step calls either return a
\* pointer-bound error within the first N calls (and then pc counts the calls
\* that succeeded before it), or the first N calls return Input, Output or
\* Continue and call N + 1 and every later call returns Finished (the first call
\* when N = 0); each successful call advances pc by exactly 1.
C20_LoopFreeTerminates == [][C20_CountedStep]_vars /\ []C20_Calls
C20_Witness ==
    /\ built = "Ok" /\ LoopFree /\ Len(program) = 3
    /\ nsteps = 4 /\ ret = Finished /\ prev_ret = Output(65)
    /\ ninputs > 0 /\ pc = 3

====
